---- MODULE Spec2Model ----
(***************************************************************************)
(* Model of the JustFitness backend authentication subsystem:              *)
(*   Backend/lib/userModel.js UserModel (MySQL table users), AuthService,  *)
(*                            authenticateToken                            *)
(*   Backend/routes/auth.js   /register /login /me /refresh /logout        *)
(*                            /logout-all                                  *)
(* Each request runs as a sequence of synchronous segments separated by    *)
(* its awaits; segments of different requests interleave freely on the     *)
(* single event loop.  Time is the wall clock in milliseconds.             *)
(***************************************************************************)
EXTENDS Integers, Sequences, FiniteSets, TLC

\* ------------------------------------------------------------------ bounds
MaxStore == 3
MaxIssued == 2
NumProcs == 2
\* milliseconds the clock may advance between two readings inside one call
MaxDrift == 1

Procs == 1..NumProcs

\* --------------------------------------------------------- time constants
\* jsonwebtoken works in whole seconds: Math.floor(Date.now() / 1000)
MsPerSec == 1000
\* expiresIn: '15m'
AccessLifeSec == 15 * 60
\* expiresIn: '7d'
RefreshLifeSec == 7 * 24 * 60 * 60
\* new Date(Date.now() + 7 * 24 * 60 * 60 * 1000)
RefreshLifeMs == 7 * 24 * 60 * 60 * 1000
\* the clock reads half a second past a full second when the process starts
StartMs == MsPerSec + 500
\* the instants at which the clock is read: at the start, half a second
\* later (the next full second), and 7 days after that
Instants == {StartMs, StartMs + 500, StartMs + 500 + RefreshLifeMs}

\* the instants of the access-token side: at the start, half a second later,
\* and 15 minutes after the start
AccessInstants == {StartMs, StartMs + 500, StartMs + AccessLifeSec * MsPerSec}

Sec(t) == t \div MsPerSec

\* ------------------------------------------------------------------ values
Nil == [nil |-> TRUE]

\* e-mail addresses are character sequences
EmailA      == <<"a", "@", "b", ".", "c">>
EmailAUpper == <<"A", "@", "b", ".", "c">>
EmailZ      == <<"z", "@", "b", ".", "c">>
EmailZUpper == <<"Z", "@", "b", ".", "c">>
EmailBad    == <<"a", "b">>
NoEmail     == <<>>

\* request bodies of POST /register and POST /login
RegisterBodies ==
  {[email |-> EmailAUpper, password |-> "secret1", name |-> "A"],
   [email |-> EmailZ,      password |-> "secret1", name |-> "Z"],
   [email |-> EmailBad,    password |-> "short",   name |-> "A"],
   [email |-> NoEmail,     password |-> "",        name |-> ""]}
\* the bodies of registrations that compete for one new e-mail address
RaceBodies ==
  {[email |-> EmailZ,      password |-> "secret1", name |-> "Z"],
   [email |-> EmailZUpper, password |-> "secret1", name |-> "Z"],
   [email |-> EmailAUpper, password |-> "secret1", name |-> "A"]}
LoginBodies ==
  {[email |-> EmailAUpper, password |-> "secret1"],
   [email |-> EmailA,      password |-> "wrong12"],
   [email |-> EmailBad,    password |-> "secret1"],
   [email |-> NoEmail,     password |-> ""]}

\* String.prototype.toLowerCase on the alphabet in use
LowerChar(c) == CASE c = "A" -> "a" [] c = "Z" -> "z" [] OTHER -> c
toLowerCase(s) == [i \in DOMAIN s |-> LowerChar(s[i])]

JWT_SECRET == "JWT_SECRET"

\* jwt.sign(payload, secret, {expiresIn}) at clock t: HS256 is a function of
\* the payload, and the payload gets iat = floor(t/1000), exp = iat + life
jwtSign(userId, email, type, life, secret, t) ==
  [userId |-> userId, email |-> email, type |-> type,
   iat |-> Sec(t), exp |-> Sec(t) + life, sig |-> secret]

\* jwt.verify(token, secret, cb) at clock t: err unless the signature matches
\* and floor(t/1000) < exp
jwtVerify(token, secret, t) ==
  IF token = Nil \/ token.sig # secret THEN [err |-> TRUE, decoded |-> Nil]
  ELSE IF Sec(t) >= token.exp THEN [err |-> TRUE, decoded |-> Nil]
  ELSE [err |-> FALSE, decoded |-> token]

\* bcrypt.hash / bcrypt.compare: an opaque one-way image
hashPassword(password) == <<"bcrypt", password>>
comparePassword(password, hashedPassword) == hashedPassword = hashPassword(password)

VARIABLES
  now,            \* Date.now(), milliseconds
  users,          \* rows of table users, in id order
  refreshTokens,  \* the in-memory array refreshTokens
  req,            \* per connection slot: the request being served
  last,           \* the request answered most recently, with its response
  issued,         \* refresh tokens ever handed to a client by this process
  loggedOut       \* issued tokens for which a /logout has completed

vars == <<now, users, refreshTokens, req, last, issued, loggedOut>>

\* ------------------------------------------------- UserModel (table users)
\* WHERE email = ? under COLLATE utf8mb4_unicode_ci compares case-insensitively
CollateEq(a, b) == toLowerCase(a) = toLowerCase(b)

\* first index at which hits is TRUE, 0 when there is none
FirstIndex(hits) ==
  IF \E i \in 1..Len(hits) : hits[i]
  THEN CHOOSE i \in 1..Len(hits) : hits[i] /\ \A j \in 1..(i - 1) : ~hits[j]
  ELSE 0

\* variant: the lookup under a binary collation, with the email as typed
findByEmail_binary(rows, email) ==
  LET i == FirstIndex([k \in 1..Len(rows) |-> rows[k].email = email /\ rows[k].is_active])
  IN IF i = 0 THEN Nil ELSE rows[i]

\* SELECT id, email, password, ... WHERE email = ? AND is_active = TRUE
findByEmail(rows, email) ==
  LET i == FirstIndex([k \in 1..Len(rows) |-> CollateEq(rows[k].email, toLowerCase(email)) /\ rows[k].is_active])
  IN IF i = 0 THEN Nil ELSE rows[i]

\* SELECT id, email, name, ... (no password column) WHERE id = ? AND is_active = TRUE
findById(rows, id) ==
  LET i == FirstIndex([k \in 1..Len(rows) |-> rows[k].id = id /\ rows[k].is_active])
  IN IF i = 0 THEN Nil
     ELSE [f \in (DOMAIN rows[i]) \ {"password"} |-> rows[i][f]]

\* variant: the table without the UNIQUE key on email
insertUser_noUnique(rows, userData, t) ==
  [err |-> FALSE, insertId |-> Len(rows) + 1,
   rows |-> Append(rows,
     [id |-> Len(rows) + 1, email |-> toLowerCase(userData.email),
      password |-> userData.password, name |-> userData.name,
      phone |-> "null", client_type |-> "unknown",
      last_login |-> -1, is_active |-> TRUE])]

\* INSERT INTO users (email, password, name, phone, client_type): the UNIQUE
\* key on email rejects a second row with an equal (collated) email
insertUser(rows, userData, t) ==
  IF \E i \in 1..Len(rows) : CollateEq(rows[i].email, toLowerCase(userData.email))
  THEN [err |-> TRUE, insertId |-> 0, rows |-> rows]
  ELSE [err |-> FALSE, insertId |-> Len(rows) + 1,
        rows |-> Append(rows,
          [id |-> Len(rows) + 1, email |-> toLowerCase(userData.email),
           password |-> userData.password, name |-> userData.name,
           phone |-> "null", client_type |-> "unknown",
           last_login |-> -1, is_active |-> TRUE])]

\* UPDATE users SET last_login = CURRENT_TIMESTAMP WHERE id = ?
updateLastLogin(rows, userId, t) ==
  [i \in DOMAIN rows |->
     IF rows[i].id = userId THEN [rows[i] EXCEPT !.last_login = Sec(t)] ELSE rows[i]]

\* ------------------------------------------------------------- AuthService
\* variant: a payload that leaves the email out
generateAccessToken_noEmail(userId, email, t) ==
  jwtSign(userId, NoEmail, "access", AccessLifeSec, JWT_SECRET, t)

\* variant: the access token signed with the refresh token's expiresIn
generateAccessToken_7d(userId, email, t) ==
  jwtSign(userId, email, "access", RefreshLifeSec, JWT_SECRET, t)

generateAccessToken(userId, email, t) ==
  jwtSign(userId, email, "access", AccessLifeSec, JWT_SECRET, t)

generateRefreshToken(userId, email, t) ==
  jwtSign(userId, email, "refresh", RefreshLifeSec, JWT_SECRET, t)

\* the two tokens, and the array after refreshTokens.push({...}); tSign,
\* tCreated, tExpires are the clock readings of jwt.sign, new Date() and
\* Date.now()
generateTokens(store, userId, email, tSign, tCreated, tExpires) ==
  LET accessToken  == generateAccessToken(userId, email, tSign)
      refreshToken == generateRefreshToken(userId, email, tSign)
  IN [accessToken |-> accessToken, refreshToken |-> refreshToken,
      store |-> Append(store,
        [token |-> refreshToken, userId |-> userId,
         createdAt |-> tCreated, expiresAt |-> tExpires + RefreshLifeMs])]

validateRegistration(email, password, name) ==
  LET required ==
        (IF email = NoEmail THEN <<"Email is required">> ELSE <<>>)
        \o (IF password = "" THEN <<"Password is required">> ELSE <<>>)
        \o (IF name = "" THEN <<"Name is required">> ELSE <<>>)
      short == IF password # "" /\ Len(password) < 6
               THEN <<"Password must be at least 6 characters long">> ELSE <<>>
      \* /\S+@\S+\.\S+/.test(email)
      matches == \E i, j \in 1..Len(email) :
                   /\ i >= 2 /\ j >= i + 2 /\ j + 1 <= Len(email)
                   /\ email[i - 1] # " " /\ email[i] = "@"
                   /\ \A k \in (i + 1)..(j - 1) : email[k] # " "
                   /\ email[j] = "." /\ email[j + 1] # " "
      format == IF email # NoEmail /\ ~matches
                THEN <<"Invalid email format">> ELSE <<>>
      errors == required \o short \o format
  IN [isValid |-> Len(errors) = 0, errors |-> errors]

validateLogin(email, password) ==
  LET errors == (IF email = NoEmail THEN <<"Email is required">> ELSE <<>>)
                \o (IF password = "" THEN <<"Password is required">> ELSE <<>>)
  IN [isValid |-> Len(errors) = 0, errors |-> errors]

\* variant: the record handed on as it is
sanitizeUser_whole(user) == user

\* const { password, ...userWithoutPassword } = user
sanitizeUser(user) == [f \in (DOMAIN user) \ {"password"} |-> user[f]]

\* refreshTokens.findIndex + splice(tokenIndex, 1)
removeRefreshToken(store, refreshToken) ==
  LET tokenIndex == FirstIndex([k \in 1..Len(store) |-> store[k].token = refreshToken])
  IN IF tokenIndex > 0
     THEN [removed |-> TRUE,
           store |-> SubSeq(store, 1, tokenIndex - 1)
                     \o SubSeq(store, tokenIndex + 1, Len(store))]
     ELSE [removed |-> FALSE, store |-> store]

\* variant: the callback without the lookup in the array
verifyRefreshToken_stateless(store, refreshToken, t) ==
  LET v == jwtVerify(refreshToken, JWT_SECRET, t)
  IN IF v.err
     THEN [ok |-> FALSE, message |-> "Invalid or expired refresh token",
           decoded |-> Nil, store |-> store]
     ELSE IF v.decoded.type # "refresh"
     THEN [ok |-> FALSE, message |-> "Invalid token type",
           decoded |-> Nil, store |-> store]
     ELSE [ok |-> TRUE, message |-> "", decoded |-> v.decoded, store |-> store]

\* variant: the callback consuming the record of the token it accepts
verifyRefreshToken_rotating(store, refreshToken, t) ==
  LET v == jwtVerify(refreshToken, JWT_SECRET, t)
      i == FirstIndex([k \in 1..Len(store) |-> store[k].token = refreshToken])
  IN IF v.err
     THEN [ok |-> FALSE, message |-> "Invalid or expired refresh token",
           decoded |-> Nil, store |-> store]
     ELSE IF i = 0
     THEN [ok |-> FALSE, message |-> "Refresh token not found",
           decoded |-> Nil, store |-> store]
     ELSE IF store[i].expiresAt < t
     THEN [ok |-> FALSE, message |-> "Refresh token expired",
           decoded |-> Nil, store |-> removeRefreshToken(store, refreshToken).store]
     ELSE IF v.decoded.type # "refresh"
     THEN [ok |-> FALSE, message |-> "Invalid token type",
           decoded |-> Nil, store |-> store]
     ELSE [ok |-> TRUE, message |-> "", decoded |-> v.decoded,
           store |-> removeRefreshToken(store, refreshToken).store]

\* the callback of jwt.verify inside the promise: runs to completion at clock t
verifyRefreshToken(store, refreshToken, t) ==
  LET v == jwtVerify(refreshToken, JWT_SECRET, t)
      i == FirstIndex([k \in 1..Len(store) |-> store[k].token = refreshToken])
  IN IF v.err
     THEN [ok |-> FALSE, message |-> "Invalid or expired refresh token",
           decoded |-> Nil, store |-> store]
     ELSE IF i = 0
     THEN [ok |-> FALSE, message |-> "Refresh token not found",
           decoded |-> Nil, store |-> store]
     ELSE IF store[i].expiresAt < t
     THEN [ok |-> FALSE, message |-> "Refresh token expired",
           decoded |-> Nil, store |-> removeRefreshToken(store, refreshToken).store]
     ELSE IF v.decoded.type # "refresh"
     THEN [ok |-> FALSE, message |-> "Invalid token type",
           decoded |-> Nil, store |-> store]
     ELSE [ok |-> TRUE, message |-> "", decoded |-> v.decoded, store |-> store]

getUserRefreshTokens(store, userId) == SelectSeq(store, LAMBDA rt : rt.userId = userId)

RECURSIVE RemoveEach(_, _)
RemoveEach(store, userTokens) ==
  IF userTokens = <<>> THEN store
  ELSE RemoveEach(removeRefreshToken(store, Head(userTokens).token).store,
                  Tail(userTokens))

\* variant: only the first record of the user is removed
removeAllUserRefreshTokens_first(store, userId) ==
  LET userTokens == SelectSeq(store, LAMBDA rt : rt.userId = userId)
  IN [count |-> Len(userTokens),
      store |-> IF userTokens = <<>> THEN store
                ELSE removeRefreshToken(store, Head(userTokens).token).store]

\* userTokens = filter(...); userTokens.forEach(remove); return userTokens.length
removeAllUserRefreshTokens(store, userId) ==
  LET userTokens == SelectSeq(store, LAMBDA rt : rt.userId = userId)
  IN [count |-> Len(userTokens), store |-> RemoveEach(store, userTokens)]

\* variant: the middleware asking for a live session of the token's user
authenticateToken_sessionBound(token, t) ==
  LET v == jwtVerify(token, JWT_SECRET, t)
  IN IF token = Nil
     THEN [status |-> 401, message |-> "Access token required", user |-> Nil]
     ELSE IF v.err
     THEN [status |-> 403, message |-> "Invalid or expired token", user |-> Nil]
     ELSE IF v.decoded.type # "access"
     THEN [status |-> 403, message |-> "Invalid token type", user |-> Nil]
     ELSE IF \A i \in 1..Len(refreshTokens) : refreshTokens[i].userId # v.decoded.userId
     THEN [status |-> 403, message |-> "Invalid or expired token", user |-> Nil]
     ELSE [status |-> 0, message |-> "", user |-> v.decoded]

\* variant: the middleware without the test of decoded.type
authenticateToken_anyType(token, t) ==
  LET v == jwtVerify(token, JWT_SECRET, t)
  IN IF token = Nil
     THEN [status |-> 401, message |-> "Access token required", user |-> Nil]
     ELSE IF v.err
     THEN [status |-> 403, message |-> "Invalid or expired token", user |-> Nil]
     ELSE [status |-> 0, message |-> "", user |-> v.decoded]

\* the middleware: the status it answers with, or 0 and req.user when it
\* calls next()
authenticateToken(token, t) ==
  LET v == jwtVerify(token, JWT_SECRET, t)
  IN IF token = Nil
     THEN [status |-> 401, message |-> "Access token required", user |-> Nil]
     ELSE IF v.err
     THEN [status |-> 403, message |-> "Invalid or expired token", user |-> Nil]
     ELSE IF v.decoded.type # "access"
     THEN [status |-> 403, message |-> "Invalid token type", user |-> Nil]
     ELSE [status |-> 0, message |-> "", user |-> v.decoded]

\* ------------------------------------------------------- requests, routes
\* a refresh token signed before this process started (its store is empty
\* again after a restart), and the same string with a signature that does
\* not verify
StaleToken  == generateRefreshToken(1, EmailA, 0)
ForgedToken == [StaleToken EXCEPT !.sig = "forged"]

AccessTwin(rt) == generateAccessToken(rt.userId, rt.email, rt.iat * MsPerSec)

\* token strings a client can put into a request
TokenInputs ==
  {Nil, StaleToken, ForgedToken} \cup issued \cup {AccessTwin(rt) : rt \in issued}

Idle == [route |-> "none", pc |-> "idle", body |-> Nil, user |-> Nil,
         decoded |-> Nil, insertId |-> 0]

Json(status, success, message, errors, data) ==
  [status |-> status, success |-> success, message |-> message,
   errors |-> errors, data |-> data]

NoResponse == [route |-> "none", body |-> Nil, res |-> Json(0, FALSE, "", <<>>, Nil)]

\* the event loop takes its next job once the response of the previous one
\* has been handed to the socket
Quiet == last = NoResponse

\* a new request is served on the first free connection slot
Free(p) == Quiet /\ req[p].pc = "idle" /\ \A q \in 1..(p - 1) : req[q].pc # "idle"

\* the request of slot p resumes after the await named by pc
Resumes(p, route, pc) == Quiet /\ req[p].route = route /\ req[p].pc = pc

\* res.status(...).json(...): the request of slot p is answered
Respond(p, route, body, res) ==
  /\ req' = [req EXCEPT ![p] = Idle]
  /\ last' = [route |-> route, body |-> body, res |-> res]

Await(p, r) == req' = [req EXCEPT ![p] = r] /\ last' = last

Issuing == {q \in Procs : req[q].route \in {"register", "login"}}

Room == /\ Len(refreshTokens) + Cardinality(Issuing) < MaxStore
        /\ Cardinality(issued) < MaxIssued

\* POST /register, up to the first await
Register(p, body) ==
  /\ Free(p) /\ Room
  /\ LET validation == validateRegistration(body.email, body.password, body.name)
     IN IF ~validation.isValid
        THEN Respond(p, "register", body,
                     Json(400, FALSE, "Validation failed", validation.errors, Nil))
        ELSE Await(p, [Idle EXCEPT !.route = "register", !.body = body,
                                   !.pc = "await_findByEmail"])
  /\ UNCHANGED <<now, users, refreshTokens, issued, loggedOut>>

\* existingUser = await UserModel.findByEmail(email)
RegisterFindByEmail(p) ==
  /\ Resumes(p, "register", "await_findByEmail")
  /\ LET existingUser == findByEmail(users, req[p].body.email)
     IN IF existingUser # Nil
        THEN Respond(p, "register", req[p].body,
                     Json(409, FALSE, "User with this email already exists", <<>>, Nil))
        ELSE Await(p, [req[p] EXCEPT !.pc = "await_insert"])
  /\ UNCHANGED <<now, users, refreshTokens, issued, loggedOut>>

\* hashedPassword = await hashPassword(password); UserModel.create: db.insert
RegisterInsert(p) ==
  /\ Resumes(p, "register", "await_insert")
  /\ LET result == insertUser(users,
                     [email |-> req[p].body.email,
                      password |-> hashPassword(req[p].body.password),
                      name |-> req[p].body.name], now)
     IN IF result.err
        THEN /\ Respond(p, "register", req[p].body,
                  Json(500, FALSE, "Internal server error during registration", <<>>, Nil))
             /\ users' = users
        ELSE /\ Await(p, [req[p] EXCEPT !.pc = "await_findById",
                                        !.insertId = result.insertId])
             /\ users' = result.rows
  /\ UNCHANGED <<now, refreshTokens, issued, loggedOut>>

\* UserModel.create: return await this.findById(userId); then generateTokens,
\* sanitizeUser and the 201 response; elapsed is what the clock advances
\* between new Date() and Date.now() inside generateTokens
RegisterCreated(p, elapsed) ==
  /\ Resumes(p, "register", "await_findById")
  /\ LET newUser == findById(users, req[p].insertId)
     IN IF newUser = Nil
        THEN /\ Respond(p, "register", req[p].body,
                  Json(500, FALSE, "Internal server error during registration", <<>>, Nil))
             /\ UNCHANGED <<now, refreshTokens, issued>>
        ELSE LET g == generateTokens(refreshTokens, newUser.id, newUser.email,
                                     now, now, now + elapsed)
             IN /\ now' = now + elapsed
                /\ refreshTokens' = g.store
                /\ issued' = issued \cup {g.refreshToken}
                /\ Respond(p, "register", req[p].body,
                     Json(201, TRUE, "User registered successfully", <<>>,
                       [user |-> sanitizeUser(newUser),
                        accessToken |-> g.accessToken, refreshToken |-> g.refreshToken,
                        accessTokenExpiresIn |-> "15m", refreshTokenExpiresIn |-> "7d"]))
  /\ UNCHANGED <<users, loggedOut>>

\* POST /login, up to the first await
Login(p, body) ==
  /\ Free(p) /\ Room
  /\ LET validation == validateLogin(body.email, body.password)
     IN IF ~validation.isValid
        THEN Respond(p, "login", body,
                     Json(400, FALSE, "Validation failed", validation.errors, Nil))
        ELSE Await(p, [Idle EXCEPT !.route = "login", !.body = body,
                                   !.pc = "await_findByEmail"])
  /\ UNCHANGED <<now, users, refreshTokens, issued, loggedOut>>

\* variant: an answer that tells an unknown e-mail from a wrong password
loginNoUser_revealing == Json(404, FALSE, "User not found", <<>>, Nil)

\* the two 401 answers of POST /login
loginNoUser == Json(401, FALSE, "Invalid email or password", <<>>, Nil)
loginBadPassword == Json(401, FALSE, "Invalid email or password", <<>>, Nil)

\* user = await findByEmail(email); isValidPassword = await comparePassword(...)
LoginFindByEmail(p) ==
  /\ Resumes(p, "login", "await_findByEmail")
  /\ LET user == findByEmail(users, req[p].body.email)
     IN IF user = Nil
        THEN Respond(p, "login", req[p].body, loginNoUser)
        ELSE IF ~comparePassword(req[p].body.password, user.password)
        THEN Respond(p, "login", req[p].body, loginBadPassword)
        ELSE Await(p, [req[p] EXCEPT !.pc = "await_updateLastLogin", !.user = user])
  /\ UNCHANGED <<now, users, refreshTokens, issued, loggedOut>>

\* await UserModel.updateLastLogin(user.id): the UPDATE runs in the database
LoginUpdateLastLogin(p) ==
  /\ Resumes(p, "login", "await_updateLastLogin")
  /\ users' = updateLastLogin(users, req[p].user.id, now)
  /\ Await(p, [req[p] EXCEPT !.pc = "generateTokens"])
  /\ UNCHANGED <<now, refreshTokens, issued, loggedOut>>

\* the handler resumes: generateTokens, sanitizeUser and the 200 response;
\* elapsed is what the clock advances between new Date() and Date.now()
\* inside generateTokens
LoginTokens(p, elapsed) ==
  /\ Resumes(p, "login", "generateTokens")
  /\ LET user == req[p].user
         g == generateTokens(refreshTokens, user.id, user.email,
                             now, now, now + elapsed)
     IN /\ now' = now + elapsed
        /\ refreshTokens' = g.store
        /\ issued' = issued \cup {g.refreshToken}
        /\ Respond(p, "login", req[p].body,
             Json(200, TRUE, "Login successful", <<>>,
               [user |-> sanitizeUser(user),
                accessToken |-> g.accessToken, refreshToken |-> g.refreshToken,
                accessTokenExpiresIn |-> "15m", refreshTokenExpiresIn |-> "7d"]))
  /\ UNCHANGED <<users, loggedOut>>

\* GET /me behind authenticateToken, up to the await of findById
Me(p, token) ==
  /\ Free(p)
  /\ LET body == [token |-> token]
         a == authenticateToken(token, now)
     IN IF a.status # 0
        THEN Respond(p, "me", body, Json(a.status, FALSE, a.message, <<>>, Nil))
        ELSE Await(p, [Idle EXCEPT !.route = "me", !.body = body,
                         !.pc = "await_findById", !.decoded = a.user])
  /\ UNCHANGED <<now, users, refreshTokens, issued, loggedOut>>

\* user = await findById(req.user.userId); sanitizeUser; the response
MeFindById(p) ==
  /\ Resumes(p, "me", "await_findById")
  /\ LET user == findById(users, req[p].decoded.userId)
     IN IF user = Nil
        THEN Respond(p, "me", req[p].body,
                     Json(404, FALSE, "User not found", <<>>, Nil))
        ELSE Respond(p, "me", req[p].body,
                     Json(200, TRUE, "", <<>>, [user |-> sanitizeUser(user)]))
  /\ UNCHANGED <<now, users, refreshTokens, issued, loggedOut>>

\* variant: a catch that answers every rejection with one fixed message
refreshRejected_generic(message) ==
  Json(403, FALSE, "Invalid refresh token", <<>>, Nil)

\* the catch of POST /refresh: message: error.message || 'Invalid refresh token'
refreshRejected(message) ==
  Json(403, FALSE, IF message # "" THEN message ELSE "Invalid refresh token",
       <<>>, Nil)

\* POST /refresh, up to the await of findById: the whole of verifyRefreshToken
Refresh(p, refreshToken) ==
  /\ Free(p)
  /\ LET body == [refreshToken |-> refreshToken]
         v == verifyRefreshToken(refreshTokens, refreshToken, now)
     IN IF refreshToken = Nil
        THEN /\ Respond(p, "refresh", body,
                        Json(401, FALSE, "Refresh token required", <<>>, Nil))
             /\ refreshTokens' = refreshTokens
        ELSE IF ~v.ok
        THEN /\ Respond(p, "refresh", body, refreshRejected(v.message))
             /\ refreshTokens' = v.store
        ELSE /\ Await(p, [Idle EXCEPT !.route = "refresh", !.body = body,
                            !.pc = "await_findById", !.decoded = v.decoded])
             /\ refreshTokens' = v.store
  /\ UNCHANGED <<now, users, issued, loggedOut>>

\* user = await findById(decoded.userId); generateAccessToken; the response
RefreshFindById(p) ==
  /\ Resumes(p, "refresh", "await_findById")
  /\ LET user == findById(users, req[p].decoded.userId)
     IN IF user = Nil
        THEN Respond(p, "refresh", req[p].body,
                     Json(404, FALSE, "User not found", <<>>, Nil))
        ELSE Respond(p, "refresh", req[p].body,
               Json(200, TRUE, "Access token refreshed successfully", <<>>,
                 [accessToken |-> generateAccessToken(user.id, user.email, now),
                  accessTokenExpiresIn |-> "15m"]))
  /\ UNCHANGED <<now, users, refreshTokens, issued, loggedOut>>

\* the handler of POST /logout: the array it leaves and its answer
logout(store, refreshToken) ==
  [store |-> IF refreshToken # Nil
             THEN removeRefreshToken(store, refreshToken).store ELSE store,
   res |-> Json(200, TRUE, "Logged out successfully", <<>>, Nil)]

\* POST /logout: synchronous
Logout(p, refreshToken) ==
  /\ Free(p)
  /\ refreshTokens' = logout(refreshTokens, refreshToken).store
  /\ loggedOut' = IF refreshToken \in issued
                  THEN loggedOut \cup {refreshToken} ELSE loggedOut
  /\ Respond(p, "logout", [refreshToken |-> refreshToken],
             logout(refreshTokens, refreshToken).res)
  /\ UNCHANGED <<now, users, issued>>

\* `Logged out from ${removedCount} devices successfully`
loggedOutFrom(removedCount) ==
  "Logged out from " \o ToString(removedCount) \o " devices successfully"

\* POST /logout-all behind authenticateToken: synchronous
LogoutAll(p, token) ==
  /\ Free(p)
  /\ LET body == [token |-> token]
         a == authenticateToken(token, now)
         x == removeAllUserRefreshTokens(refreshTokens, a.user.userId)
     IN IF a.status # 0
        THEN /\ Respond(p, "logout-all", body, Json(a.status, FALSE, a.message, <<>>, Nil))
             /\ refreshTokens' = refreshTokens
        ELSE /\ Respond(p, "logout-all", body,
                  Json(200, TRUE, loggedOutFrom(x.count), <<>>, Nil))
             /\ refreshTokens' = x.store
  /\ UNCHANGED <<now, users, issued, loggedOut>>

\* the response has left the process
Delivered ==
  /\ ~Quiet
  /\ last' = NoResponse
  /\ UNCHANGED <<now, users, refreshTokens, req, issued, loggedOut>>

\* the wall clock advances
Tick(t) ==
  /\ Quiet
  /\ t > now
  /\ now' = t
  /\ UNCHANGED <<users, refreshTokens, req, last, issued, loggedOut>>

\* the row of table users that exists when the process starts
UserA == [email |-> EmailA, password |-> hashPassword("secret1"), name |-> "A"]

\* the process has just started: an empty token array, an idle server, and a
\* database that already holds one user registered earlier
Init ==
  /\ now = StartMs
  /\ users = insertUser(<<>>, UserA, 0).rows
  /\ refreshTokens = <<>>
  /\ req = [p \in Procs |-> Idle]
  /\ last = NoResponse
  /\ issued = {}
  /\ loggedOut = {}

\* the session side: every route that reads or writes refreshTokens; each
\* generateTokens takes its two clock readings within one millisecond
Next ==
  \/ \E p \in Procs, body \in RegisterBodies : Register(p, body)
  \/ \E p \in Procs : RegisterFindByEmail(p)
  \/ \E p \in Procs : RegisterInsert(p)
  \/ \E p \in Procs : RegisterCreated(p, 0)
  \/ \E p \in Procs, body \in LoginBodies : Login(p, body)
  \/ \E p \in Procs : LoginFindByEmail(p)
  \/ \E p \in Procs : LoginUpdateLastLogin(p)
  \/ \E p \in Procs : LoginTokens(p, 0)
  \/ \E p \in Procs, t \in TokenInputs : Refresh(p, t)
  \/ \E p \in Procs : RefreshFindById(p)
  \/ \E p \in Procs, t \in TokenInputs : Logout(p, t)
  \/ \E p \in Procs, t \in TokenInputs : LogoutAll(p, t)
  \/ \E t \in Instants : Tick(t)
  \/ Delivered

Spec == Init /\ [][Next]_vars

\* the instants of the clock side, and the readings the clock is followed
\* to: no further than MaxDrift past one of them
ClockInstants == {StartMs, StartMs + 500}
NearInstant(t) == \E i \in ClockInstants : t - i \in 0..MaxDrift

\* the clock side: sessions are issued and revoked while the clock may pass
\* a millisecond boundary between the two readings of one generateTokens
NextClock ==
  \/ \E p \in Procs, body \in RegisterBodies : Register(p, body)
  \/ \E p \in Procs : RegisterFindByEmail(p)
  \/ \E p \in Procs : RegisterInsert(p)
  \/ \E p \in Procs, elapsed \in 0..MaxDrift :
       NearInstant(now + elapsed) /\ RegisterCreated(p, elapsed)
  \/ \E p \in Procs, body \in LoginBodies : Login(p, body)
  \/ \E p \in Procs : LoginFindByEmail(p)
  \/ \E p \in Procs : LoginUpdateLastLogin(p)
  \/ \E p \in Procs, elapsed \in 0..MaxDrift :
       NearInstant(now + elapsed) /\ LoginTokens(p, elapsed)
  \/ \E p \in Procs, t \in TokenInputs : Logout(p, t)
  \/ \E t \in ClockInstants : Tick(t)
  \/ Delivered

SpecClock == Init /\ [][NextClock]_vars

\* the registration side: registrations for one address race with each other
\* and with logins and logouts
NextRegister ==
  \/ \E p \in Procs, body \in RaceBodies : Register(p, body)
  \/ \E p \in Procs : RegisterFindByEmail(p)
  \/ \E p \in Procs : RegisterInsert(p)
  \/ \E p \in Procs : RegisterCreated(p, 0)
  \/ \E p \in Procs, body \in LoginBodies : Login(p, body)
  \/ \E p \in Procs : LoginFindByEmail(p)
  \/ \E p \in Procs : LoginUpdateLastLogin(p)
  \/ \E p \in Procs : LoginTokens(p, 0)
  \/ \E p \in Procs, t \in TokenInputs : Logout(p, t)
  \/ \E t \in ClockInstants : Tick(t)
  \/ Delivered

SpecRegister == Init /\ [][NextRegister]_vars

\* the access-token side: sessions are issued and revoked, access tokens are
\* presented to the routes behind authenticateToken, and the clock runs to
\* the end of an access token's life
NextAccess ==
  \/ \E p \in Procs, body \in RegisterBodies : Register(p, body)
  \/ \E p \in Procs : RegisterFindByEmail(p)
  \/ \E p \in Procs : RegisterInsert(p)
  \/ \E p \in Procs : RegisterCreated(p, 0)
  \/ \E p \in Procs, body \in LoginBodies : Login(p, body)
  \/ \E p \in Procs : LoginFindByEmail(p)
  \/ \E p \in Procs : LoginUpdateLastLogin(p)
  \/ \E p \in Procs : LoginTokens(p, 0)
  \/ \E p \in Procs, t \in TokenInputs : Me(p, t)
  \/ \E p \in Procs : MeFindById(p)
  \/ \E p \in Procs, t \in TokenInputs : Logout(p, t)
  \/ \E p \in Procs, t \in TokenInputs : LogoutAll(p, t)
  \/ \E t \in AccessInstants : Tick(t)
  \/ Delivered

SpecAccess == Init /\ [][NextAccess]_vars

\* ------------------------------------------------------------ properties
InStore(store, t) == \E i \in 1..Len(store) : store[i].token = t

\* t carries the server's signature and its exp lies ahead of the clock
Unexpired(t) == t # Nil /\ t.sig = JWT_SECRET /\ Sec(now) < t.exp

\* slot p has got past verifyRefreshToken and awaits the user lookup
Resolved(p) == req'[p].route = "refresh" /\ req'[p].pc = "await_findById"

\* C1: once a /logout of an issued refresh token t has completed, every
\* /refresh of t that starts later, while t's signature and expiry still
\* pass, is answered 403 'Refresh token not found' and mints nothing.
C1_RevocationImmediate ==
  [][\A p \in Procs, t \in loggedOut :
       (Refresh(p, t) /\ Unexpired(t))
         => /\ last'.res.status = 403
            /\ last'.res.message = "Refresh token not found"
            /\ ~Resolved(p)]_vars

\* C2: verifyRefreshToken resolves only for a token that is correctly signed,
\* unexpired and present in the array at that moment; a /refresh with a token
\* that was never pushed onto the array is refused, mints nothing and leaves
\* the array as it was.
C2_DualGate ==
  [][\A p \in Procs, t \in TokenInputs :
       Refresh(p, t)
         => /\ Resolved(p) => (Unexpired(t) /\ InStore(refreshTokens, t))
            /\ t \notin issued
                 => /\ ~Resolved(p)
                    /\ last'.res.status \in {401, 403}
                    /\ last'.res.data = Nil
                    /\ refreshTokens' = refreshTokens]_vars

\* a /refresh with a well-signed, unexpired token that this process never
\* stored has been refused
C2_Witness ==
  /\ last.route = "refresh"
  /\ last.body.refreshToken = StaleToken
  /\ Unexpired(StaleToken)
  /\ last.res.status = 403
  /\ last.res.message = "Refresh token not found"

\* C3: a /refresh with a refresh token that generateTokens issued, that is
\* still in the array and whose exp has not been reached, passes
\* verification, and the request is answered 200 with a signed token of type
\* access that carries the userId and email of the user the session was
\* issued to.
C3_RoundTrip ==
  [][\A p \in Procs :
       /\ \A t \in issued :
            (Refresh(p, t) /\ InStore(refreshTokens, t) /\ Unexpired(t))
              => (Resolved(p) /\ req'[p].body.refreshToken = t)
       /\ RefreshFindById(p)
            => LET t == req[p].body.refreshToken
                   a == last'.res.data.accessToken
               IN /\ t \in issued
                  /\ last'.res.status = 200
                  /\ a.type = "access" /\ a.sig = JWT_SECRET
                  /\ a.exp = Sec(now) + AccessLifeSec
                  /\ a.userId = t.userId /\ a.email = t.email
                  /\ \E i \in 1..Len(users) :
                       users[i].id = a.userId /\ users[i].email = a.email]_vars

\* the session of the user registered in this run has been refreshed
C3_Witness ==
  /\ last.route = "refresh"
  /\ last.res.status = 200
  /\ last.body.refreshToken \in issued
  /\ last.body.refreshToken.email = EmailZ
  /\ last.res.data.accessToken.email = EmailZ

\* C4: a successful /refresh leaves the array refreshTokens exactly as it
\* was, in both of its segments, so that while t stays stored and unexpired
\* a further verification of t succeeds again.
C4_NoRotation ==
  [][\A p \in Procs :
       /\ \A t \in TokenInputs :
            (Refresh(p, t) /\ Resolved(p)) => refreshTokens' = refreshTokens
       /\ (RefreshFindById(p) /\ last'.res.status = 200)
            => /\ refreshTokens' = refreshTokens
               /\ LET t == req[p].body.refreshToken
                  IN (InStore(refreshTokens', t) /\ Unexpired(t))
                       => verifyRefreshToken(refreshTokens', t, now).ok]_vars

\* a /refresh has succeeded and its token is still stored next to another one
C4_Witness ==
  /\ last.route = "refresh"
  /\ last.res.status = 200
  /\ InStore(refreshTokens, last.body.refreshToken)
  /\ Len(refreshTokens) >= 2

\* C5: /logout-all of user u answers with the number of records of u that
\* were stored, leaves no record of u, keeps every record of every other user
\* as it was, and a second removal for u right after it counts 0.
C5_LogoutAll ==
  [][\A p \in Procs, t \in TokenInputs :
       (LogoutAll(p, t) /\ authenticateToken(t, now).status = 0)
         => LET u == t.userId
            IN /\ last'.res.status = 200
               /\ last'.res.message = loggedOutFrom(
                    Cardinality({i \in 1..Len(refreshTokens) : refreshTokens[i].userId = u}))
               /\ \A i \in 1..Len(refreshTokens') : refreshTokens'[i].userId # u
               /\ refreshTokens' = SelectSeq(refreshTokens, LAMBDA rt : rt.userId # u)
               /\ removeAllUserRefreshTokens(refreshTokens', u).count = 0]_vars

\* /logout-all has removed two records of one user and left another user's
C5_Witness ==
  /\ last.route = "logout-all"
  /\ last.res.status = 200
  /\ last.res.message = loggedOutFrom(2)
  /\ Len(refreshTokens) = 1

\* C6: a /refresh of t while t's stored record has expiresAt < now removes
\* that record and is answered 'Refresh token expired', so that after such
\* an attempt the array no longer holds t.
C6_LazyPurge ==
  [][\A p \in Procs, t \in TokenInputs :
       (/\ Refresh(p, t)
        /\ \E i \in 1..Len(refreshTokens) :
             refreshTokens[i].token = t /\ refreshTokens[i].expiresAt < now)
         => /\ last'.res.status = 403
            /\ last'.res.message = "Refresh token expired"
            /\ ~InStore(refreshTokens', t)]_vars

\* C7: two /logout requests with the same issued token t, served one right
\* after the other from any reachable state, are both answered 200 and leave
\* no record of t in the array.
C7_TwoLogouts ==
  \A t \in issued :
    LET first  == logout(refreshTokens, t)
        second == logout(first.store, t)
    IN /\ first.res.status = 200 /\ first.res.success
       /\ second.res.status = 200 /\ second.res.success
       /\ ~InStore(second.store, t)

\* C8: /logout is answered 200 whether its token is stored, not stored or
\* missing; it removes at most one record, none with another token string;
\* and a second /logout of the same token changes nothing any more.
C8_LogoutIdempotent ==
  \A t \in TokenInputs :
    LET once  == logout(refreshTokens, t)
        twice == logout(once.store, t)
        Other(rt) == rt.token # t
    IN /\ once.res.status = 200 /\ once.res.success
       /\ Len(once.store) >= Len(refreshTokens) - 1
       /\ SelectSeq(once.store, Other) = SelectSeq(refreshTokens, Other)
       /\ twice.store = once.store

\* the one answer of a failed login
InvalidCredentials == Json(401, FALSE, "Invalid email or password", <<>>, Nil)

\* C9: a login whose lookup finds no active user and a login whose password
\* does not verify get the same answer, 401 'Invalid email or password',
\* with no token in it; no record is pushed and no row of users changes.
C9_InvalidCredentials ==
  [][\A p \in Procs :
       LET user == findByEmail(users, req[p].body.email)
       IN (/\ LoginFindByEmail(p)
           /\ \/ user = Nil
              \/ ~comparePassword(req[p].body.password, user.password))
            => /\ last'.route = "login"
               /\ last'.res = InvalidCredentials
               /\ req'[p] = Idle
               /\ refreshTokens' = refreshTokens
               /\ issued' = issued
               /\ users' = users]_vars

\* a login with a wrong password for a registered e-mail has been refused
C9_Witness ==
  /\ last.route = "login"
  /\ last.body.email = EmailA
  /\ last.body.password = "wrong12"
  /\ last.res.status = 401
  /\ \E i \in 1..Len(users) : users[i].email = EmailA /\ users[i].is_active

\* C10: when an active user exists whose e-mail equals the requested one up
\* to letter case, the lookup of POST /register finds it and the request is
\* answered 409 with no tokens; no row is inserted and no record is pushed.
C10_DuplicateEmail ==
  [][\A p \in Procs :
       (/\ RegisterFindByEmail(p)
        /\ \E i \in 1..Len(users) :
             /\ users[i].is_active
             /\ toLowerCase(users[i].email) = toLowerCase(req[p].body.email))
         => /\ last'.route = "register"
            /\ last'.res.status = 409
            /\ last'.res.message = "User with this email already exists"
            /\ last'.res.data = Nil
            /\ req'[p] = Idle
            /\ users' = users
            /\ refreshTokens' = refreshTokens
            /\ issued' = issued]_vars

\* a registration with the stored e-mail in another letter case was refused
C10_Witness ==
  /\ last.route = "register"
  /\ last.body.email = EmailAUpper
  /\ last.body.email # users[1].email
  /\ last.res.status = 409

\* the one answer the claim gives every rejected /refresh
GenericRefreshFailure == refreshRejected("Invalid or expired refresh token")

\* C11 as claimed: every /refresh that verifyRefreshToken rejects gets one
\* and the same generic 'invalid or expired' answer, whatever the cause of
\* the rejection.
C11_GenericFailure ==
  [][\A p \in Procs, t \in TokenInputs \ {Nil} :
       (Refresh(p, t) /\ ~Resolved(p)) => last'.res = GenericRefreshFailure]_vars

\* what verifyRefreshToken rejects a token with, by cause
RejectionOf(store, t, clock) ==
  IF t.sig # JWT_SECRET \/ Sec(clock) >= t.exp THEN "Invalid or expired refresh token"
  ELSE IF ~InStore(store, t) THEN "Refresh token not found"
  ELSE "Invalid token type"

\* C11 as amended: every /refresh that verifyRefreshToken rejects is answered
\* 403 with success false, no data and no access token, and nothing is
\* stored or removed; the message of the answer names the cause: 'Invalid or
\* expired refresh token' for a bad signature or a passed exp, 'Refresh
\* token not found' for a verified token without a record.
C11_SameStatusOwnMessage ==
  [][\A p \in Procs, t \in TokenInputs \ {Nil} :
       (Refresh(p, t) /\ ~Resolved(p))
         => /\ last'.res.status = 403
            /\ ~last'.res.success
            /\ last'.res.data = Nil
            /\ last'.res.message = RejectionOf(refreshTokens, t, now)
            /\ refreshTokens' = refreshTokens]_vars

\* a /refresh with a token of a foreign signature has been refused
C11_Witness ==
  /\ last.route = "refresh"
  /\ last.body.refreshToken = ForgedToken
  /\ last.res.status = 403
  /\ last.res.message = "Invalid or expired refresh token"

\* out is the record rec without its password field, every other field as
\* in rec
Stripped(rec, out) ==
  /\ DOMAIN out = (DOMAIN rec) \ {"password"}
  /\ \A f \in DOMAIN out : out[f] = rec[f]

\* C12: no user object in any response carries a password field; the user
\* in the answers of /login, /register and /me is the record the handler
\* read from the database with the password removed and every other field
\* unchanged.
C12_Sanitized ==
  [][/\ (last'.res.data # Nil /\ "user" \in DOMAIN last'.res.data)
          => "password" \notin DOMAIN last'.res.data.user
     /\ \A p \in Procs :
          /\ LoginTokens(p, 0)
               => /\ "password" \in DOMAIN req[p].user
                  /\ Stripped(req[p].user, last'.res.data.user)
          /\ (RegisterCreated(p, 0) /\ last'.res.status = 201)
               => Stripped(findById(users, req[p].insertId), last'.res.data.user)
          /\ (MeFindById(p) /\ last'.res.status = 200)
               => Stripped(findById(users, req[p].decoded.userId),
                           last'.res.data.user)]_vars

\* a login has answered with the user of a row that holds a password hash
C12_Witness ==
  /\ last.route = "login"
  /\ last.res.status = 200
  /\ last.res.data.user.id = 1
  /\ users[1].password = hashPassword("secret1")
  /\ "password" \notin DOMAIN last.res.data.user

\* C13: authenticateToken answers 403 to every token of type refresh, so a
\* /logout-all presented with one removes nothing; and a /refresh presented
\* with a token of type access never gets past verifyRefreshToken and is
\* answered 403 without an access token.
C13_KindSeparation ==
  [][\A p \in Procs, t \in TokenInputs \ {Nil} :
       /\ t.type = "refresh" => authenticateToken(t, now).status = 403
       /\ (t.type = "refresh" /\ LogoutAll(p, t))
            => /\ last'.res.status = 403
               /\ Unexpired(t) => last'.res.message = "Invalid token type"
               /\ refreshTokens' = refreshTokens
       /\ (t.type = "access" /\ Refresh(p, t))
            => /\ ~Resolved(p)
               /\ last'.res.status = 403
               /\ last'.res.data = Nil]_vars

\* a /logout-all presented with a stored, unexpired refresh token was refused
C13_Witness ==
  /\ last.route = "logout-all"
  /\ last.body.token \in issued
  /\ InStore(refreshTokens, last.body.token)
  /\ Unexpired(last.body.token)
  /\ last.res.status = 403
  /\ last.res.message = "Invalid token type"

\* C14: the access token handed out by /login and /register carries the
\* userId and email it was signed for and the second of its issuance;
\* authenticateToken accepts it exactly while fewer than 15 minutes (in the
\* whole seconds of the token's clock) have passed since then, and hands on
\* that userId and email unchanged; GET /me gets past the middleware under
\* the same condition.
C14_AccessLifetime ==
  [][\A p \in Procs :
       /\ LoginTokens(p, 0)
            => LET a == last'.res.data.accessToken
               IN /\ a = AccessTwin(last'.res.data.refreshToken)
                  /\ a.iat = Sec(now)
                  /\ a.userId = req[p].user.id /\ a.email = req[p].user.email
       /\ (RegisterCreated(p, 0) /\ last'.res.status = 201)
            => LET a == last'.res.data.accessToken
               IN /\ a = AccessTwin(last'.res.data.refreshToken)
                  /\ a.iat = Sec(now)
                  /\ a.userId = req[p].insertId
                  /\ a.email = toLowerCase(req[p].body.email)
       /\ \A rt \in issued :
            LET a == AccessTwin(rt)
                r == authenticateToken(a, now)
                within == Sec(now) - a.iat < AccessLifeSec
            IN /\ r.status = 0 <=> within
               /\ r.status = 0 => (r.user.userId = rt.userId /\ r.user.email = rt.email)
               /\ Me(p, a)
                    => /\ (req'[p].route = "me" /\ req'[p].pc = "await_findById") <=> within
                       /\ within => /\ req'[p].decoded.userId = rt.userId
                                     /\ req'[p].decoded.email = rt.email
                       /\ ~within => last'.res.status = 403]_vars

\* fifteen minutes after the start: GET /me with the access token of the
\* start has been refused while the one issued half a second later is accepted
C14_Witness ==
  /\ last.route = "me"
  /\ last.res.status = 403
  /\ \E rt1, rt2 \in issued :
       /\ last.body.token = AccessTwin(rt1)
       /\ now - rt1.iat * MsPerSec >= AccessLifeSec * MsPerSec
       /\ authenticateToken(AccessTwin(rt2), now).status = 0
       /\ rt2.iat > rt1.iat

\* C15: the array holds at most one record per token string, and each
\* generateTokens of /login or /register pushes a record whose token differs
\* from that of every record already stored.
C15_TokenUniqueness ==
  \A i, j \in 1..Len(refreshTokens) :
    refreshTokens[i].token = refreshTokens[j].token => i = j

\* C16: once an issued refresh token has no record in the array any more,
\* it never has one again, and no /refresh of it gets past
\* verifyRefreshToken.
C16_TerminalAbsorbing ==
  [][\A t \in issued :
       ~InStore(refreshTokens, t)
         => /\ ~InStore(refreshTokens', t)
            /\ \A p \in Procs : Refresh(p, t) => ~Resolved(p)]_vars

\* C17: every record of the array has expiresAt = createdAt + 7 days, to
\* the millisecond.
C17_SevenDaysExactly ==
  \A i \in 1..Len(refreshTokens) :
    refreshTokens[i].expiresAt = refreshTokens[i].createdAt + RefreshLifeMs

\* no record of the array belongs to the user of rt
NoSession(rt) == \A i \in 1..Len(refreshTokens) : refreshTokens[i].userId # rt.userId

\* C18: whatever the array holds - also after /logout of the session's
\* refresh token or /logout-all of its user has emptied it of that user -
\* the access token of an issued session is accepted by authenticateToken
\* while its 15 minutes last: GET /me gets past the middleware and is
\* answered 200 with the user, and /logout-all is answered 200.
C18_AccessStateless ==
  [][\A p \in Procs :
       /\ \A rt \in issued :
            LET a == AccessTwin(rt)
            IN (Sec(now) - a.iat < AccessLifeSec)
                 => /\ Me(p, a) => /\ req'[p].route = "me"
                                    /\ req'[p].pc = "await_findById"
                                    /\ req'[p].decoded = a
                    /\ LogoutAll(p, a) => /\ last'.res.status = 200
                                           /\ last'.res.success
       /\ MeFindById(p)
            => /\ last'.res.status = 200
               /\ last'.res.data.user.id = req[p].decoded.userId
               /\ refreshTokens' = refreshTokens]_vars

\* GET /me has answered 200 to the access token of a session whose refresh
\* token was logged out and whose user has no record left
C18_Witness ==
  /\ last.route = "me"
  /\ last.res.status = 200
  /\ \E rt \in loggedOut :
       /\ last.body.token = AccessTwin(rt)
       /\ ~InStore(refreshTokens, rt)
       /\ NoSession(rt)

\* C19: whenever the /refresh handler, back from its user lookup, answers
\* with a new access token, the record of the request's refresh token is
\* still in the array.
C19_MintOnlyWhileStored ==
  [][\A p \in Procs :
       (RefreshFindById(p) /\ last'.res.status = 200)
         => InStore(refreshTokens, req[p].body.refreshToken)]_vars

\* a row of users has the e-mail address, up to letter case
Taken(email) == \E i \in 1..Len(users) : CollateEq(users[i].email, email)

\* C20: no two rows of users have the same e-mail up to letter case; an
\* INSERT succeeds only for an address no row has yet, and one for a taken
\* address is answered 500 without tokens and changes nothing; a
\* registration answers 201 with tokens and pushes its one record only for
\* the row its own INSERT created, which no other request in flight shares.
C20_RegisterRace ==
  [][/\ \A i, j \in 1..Len(users) :
          CollateEq(users[i].email, users[j].email) => i = j
     /\ \A p \in Procs :
          /\ RegisterInsert(p)
               => IF Taken(req[p].body.email)
                  THEN /\ users' = users
                       /\ last'.res.status = 500
                       /\ last'.res.data = Nil
                       /\ req'[p] = Idle
                  ELSE /\ Len(users') = Len(users) + 1
                       /\ req'[p].insertId = Len(users')
          /\ (RegisterCreated(p, 0) /\ last'.res.status = 201)
               => LET id == req[p].insertId
                  IN /\ users[id].email = toLowerCase(req[p].body.email)
                     /\ \A q \in Procs \ {p} : req[q].insertId # id
                     /\ last'.res.data.refreshToken.userId = id
                     /\ Len(refreshTokens') = Len(refreshTokens) + 1
          /\ refreshTokens' # refreshTokens /\ last'.route = "register"
               => last'.res.status = 201]_vars

\* of two registrations racing for one address in different letter case, the
\* one that came second to the INSERT has been answered 500
C20_Witness ==
  /\ last.route = "register"
  /\ last.res.status = 500
  /\ last.body.email = EmailZUpper
  /\ \E i \in 1..Len(users) : users[i].email = EmailZ
  /\ Cardinality({i \in 1..Len(users) : CollateEq(users[i].email, EmailZ)}) = 1
====
